---- MODULE Spec2Model ----
(***************************************************************************)
(* Progressive context extension (src/extensions/progressive-context.ts):  *)
(* the session table, the walk up the directory tree and the handlers of   *)
(* the read hook, session shutdown, the inject_context tool and /context.  *)
(*                                                                         *)
(* A string is a sequence of tokens.  A token is a one-character string    *)
(* ("/", "p", "2"), the two-dot segment "..", or a whole file name         *)
(* (AgentsMd); the string it stands for is the concatenation of its     *)
(* tokens, so <<"/","p","2","/","x">> is "/p2/x".  "/" occurs only as a    *)
(* token of its own, which makes the token-wise prefix test and the        *)
(* token-wise scans below agree with the character-wise ones of the code.  *)
(***************************************************************************)
EXTENDS Integers, Sequences, FiniteSets, TLC

Sep == "/"
DotDot == ".."
Dot == "."

\* ------------------------------------------------------------------ strings

\* String.prototype.startsWith
StartsWith(s, prefix) ==
  /\ Len(prefix) <= Len(s)
  /\ SubSeq(s, 1, Len(prefix)) = prefix

\* path.isAbsolute (posix)
IsAbsolute(p) == Len(p) > 0 /\ p[1] = Sep

\* The segments of a string: the maximal runs of tokens between separators,
\* in order, the empty runs included.
RECURSIVE SplitFrom(_, _, _, _)
SplitFrom(p, i, cur, acc) ==
  IF i > Len(p) THEN Append(acc, cur)
  ELSE IF p[i] = Sep THEN SplitFrom(p, i + 1, << >>, Append(acc, cur))
  ELSE SplitFrom(p, i + 1, Append(cur, p[i]), acc)

Segments(p) == SplitFrom(p, 1, << >>, << >>)

\* normalizeString of node:path: empty and "." segments are dropped, ".."
\* removes the segment before it; at the top it is kept when allowAboveRoot
\* and dropped otherwise.  The result is the list of remaining segments.
RECURSIVE NormalizeSegs(_, _, _, _)
NormalizeSegs(segs, i, res, allowAboveRoot) ==
  IF i > Len(segs) THEN res
  ELSE LET seg == segs[i] IN
    IF seg = << >> \/ seg = <<Dot>>
      THEN NormalizeSegs(segs, i + 1, res, allowAboveRoot)
    ELSE IF seg = <<DotDot>>
      THEN IF Len(res) > 0 /\ res[Len(res)] # <<DotDot>>
             THEN NormalizeSegs(segs, i + 1, SubSeq(res, 1, Len(res) - 1), allowAboveRoot)
           ELSE IF allowAboveRoot
             THEN NormalizeSegs(segs, i + 1, Append(res, seg), allowAboveRoot)
           ELSE NormalizeSegs(segs, i + 1, res, allowAboveRoot)
    ELSE NormalizeSegs(segs, i + 1, Append(res, seg), allowAboveRoot)

\* The segments joined by the separator.
RECURSIVE JoinSegs(_, _)
JoinSegs(segs, i) ==
  IF i > Len(segs) THEN << >>
  ELSE IF i = Len(segs) THEN segs[i]
  ELSE segs[i] \o <<Sep>> \o JoinSegs(segs, i + 1)

NormalizeString(p, allowAboveRoot) ==
  JoinSegs(NormalizeSegs(Segments(p), 1, << >>, allowAboveRoot), 1)

\* path.normalize (posix)
Normalize(p) ==
  IF Len(p) = 0 THEN <<Dot>>
  ELSE LET isAbs == IsAbsolute(p)
           trailingSeparator == p[Len(p)] = Sep
           n == NormalizeString(p, ~isAbs)
           body == IF Len(n) = 0
                     THEN (IF isAbs THEN << >> ELSE <<Dot>>)
                     ELSE (IF trailingSeparator THEN n \o <<Sep>> ELSE n)
       IN IF Len(n) = 0 /\ ~isAbs /\ trailingSeparator THEN <<Dot, Sep>>
          ELSE IF isAbs THEN <<Sep>> \o body ELSE body

\* path.join (posix) of two arguments: empty arguments are left out
PathJoin(a, b) ==
  IF Len(a) = 0 /\ Len(b) = 0 THEN <<Dot>>
  ELSE IF Len(a) = 0 THEN Normalize(b)
  ELSE IF Len(b) = 0 THEN Normalize(a)
  ELSE Normalize(a \o <<Sep>> \o b)

\* The working directory of the process, which path.resolve puts in front
\* of a relative argument.
Cwd == <<Sep, "p">>

\* path.resolve (posix) of one argument
PathResolve(p) ==
  LET full == IF IsAbsolute(p) THEN p ELSE Cwd \o <<Sep>> \o p
  IN <<Sep>> \o NormalizeString(full, FALSE)

\* The scan of path.dirname: from the last token down to the second one,
\* the index of the first separator that follows a non-separator, 0 if none.
RECURSIVE DirnameEnd(_, _, _)
DirnameEnd(p, i, matchedSlash) ==
  IF i < 2 THEN 0
  ELSE IF p[i] = Sep
    THEN (IF ~matchedSlash THEN i ELSE DirnameEnd(p, i - 1, matchedSlash))
  ELSE DirnameEnd(p, i - 1, FALSE)

\* path.dirname (posix)
PathDirname(p) ==
  IF Len(p) = 0 THEN <<Dot>>
  ELSE LET hasRoot == p[1] = Sep
           end == DirnameEnd(p, Len(p), TRUE)
       IN IF end = 0 THEN (IF hasRoot THEN <<Sep>> ELSE <<Dot>>)
          ELSE IF hasRoot /\ end = 2 THEN <<Sep, Sep>>
          ELSE SubSeq(p, 1, end - 1)

\* The segments of a resolved path: its non-empty runs between separators
ResolvedSegs(p) == SelectSeq(Segments(p), LAMBDA seg : seg # << >>)

\* The number of leading segments two segment lists share
RECURSIVE CommonSegs(_, _, _)
CommonSegs(a, b, i) ==
  IF i > Len(a) \/ i > Len(b) \/ a[i] # b[i] THEN i - 1
  ELSE CommonSegs(a, b, i + 1)

\* path.relative (posix): both arguments are resolved; the result climbs
\* with one ".." for every segment of from below the common directory and
\* then descends along the rest of to; the empty string for equal paths.
PathRelative(from, to) ==
  LET fromSegs == ResolvedSegs(PathResolve(from))
      toSegs == ResolvedSegs(PathResolve(to))
      common == CommonSegs(fromSegs, toSegs, 1)
      ups == [i \in 1..(Len(fromSegs) - common) |-> <<DotDot>>]
  IN JoinSegs(ups \o SubSeq(toSegs, common + 1, Len(toSegs)), 1)

\* ------------------------------------------------------------------ constants

AgentsMd == <<"AGENTS.md">>
ClaudeMd == <<"CLAUDE.md">>
ClaMd == <<"CLA.md">>

AGENTS_FILENAMES == <<AgentsMd, ClaudeMd, ClaMd>>
CONTEXT_SEPARATOR == <<"\n", "\n", "-", "-", "-", "\n", "\n">>
MAX_CONTEXT_SIZE == 2000
MAX_CACHED_SESSIONS == 100

\* pi.workspaceRoot
RootDir == <<Sep, "p">>

\* ------------------------------------------------------------------ state

VARIABLES
  sessionCaches,  \* the Map sessionID -> SessionCache, in insertion order:
                  \* a sequence of [id, injectedPaths], first key first
  config,         \* the ProgressiveContextConfig built when the extension loads
  fs,             \* the file system: path -> "file" | "dir", absent otherwise
  last,           \* what the most recent handler run did and returned
  hist,           \* per session, the fragments the read hook has injected
                  \* since the session's last shutdown and since its entry
                  \* was last created
  runs            \* the tool_result handler calls followed statement by
                  \* statement: for each, where it stands and its locals

vars == <<sessionCaches, config, fs, last, hist, runs>>

\* ------------------------------------------------------------------ the Map

Keys(caches) == {caches[i].id : i \in 1..Len(caches)}

\* Map.prototype.has
MapHas(caches, id) == id \in Keys(caches)

\* Map.prototype.get, for a key the map has
MapGet(caches, id) ==
  (CHOOSE i \in 1..Len(caches) : caches[i].id = id)

\* Map.prototype.delete: the other entries keep their order
\* A delete that removes nothing
MapDelete_Noop(caches, id) == caches

MapDelete(caches, id) == SelectSeq(caches, LAMBDA e : e.id # id)

\* sessionCaches.keys().next().value
FirstKey(caches) == Head(caches).id

\* cache.injectedPaths of a session, the empty set for an untracked one
InjectedPaths(caches, id) ==
  IF MapHas(caches, id) THEN caches[MapGet(caches, id)].injectedPaths ELSE {}

\* getSessionCache without the eviction of lines 33-36
getSessionCache_NoEvict(caches, sessionID) ==
  IF ~MapHas(caches, sessionID)
    THEN Append(caches, [id |-> sessionID, injectedPaths |-> {}])
    ELSE caches

\* getSessionCache evicting the newest entry instead of the first key
getSessionCache_EvictNewest(caches, sessionID) ==
  LET evicted ==
        IF Len(caches) >= MAX_CACHED_SESSIONS /\ ~MapHas(caches, sessionID)
          THEN MapDelete(caches, caches[Len(caches)].id)
          ELSE caches
  IN IF ~MapHas(evicted, sessionID)
       THEN Append(evicted, [id |-> sessionID, injectedPaths |-> {}])
       ELSE evicted

\* getSessionCache without the test of line 38: a tracked session gets a
\* new empty set
getSessionCache_Fresh(caches, sessionID) ==
  LET evicted ==
        IF Len(caches) >= MAX_CACHED_SESSIONS /\ ~MapHas(caches, sessionID)
          THEN MapDelete(caches, FirstKey(caches))
          ELSE caches
  IN IF ~MapHas(evicted, sessionID)
       THEN Append(evicted, [id |-> sessionID, injectedPaths |-> {}])
       ELSE [i \in 1..Len(evicted) |->
               IF evicted[i].id = sessionID
                 THEN [id |-> sessionID, injectedPaths |-> {}]
                 ELSE evicted[i]]

\* getSessionCache without the membership test of line 33: a full table
\* loses its first key on every call
getSessionCache_EvictAlways(caches, sessionID) ==
  LET evicted ==
        IF Len(caches) >= MAX_CACHED_SESSIONS
          THEN MapDelete(caches, FirstKey(caches))
          ELSE caches
  IN IF ~MapHas(evicted, sessionID)
       THEN Append(evicted, [id |-> sessionID, injectedPaths |-> {}])
       ELSE evicted

\* getSessionCache: the table after the call (the entry it returns is the
\* one of sessionID in that table)
getSessionCache(caches, sessionID) ==
  LET evicted ==
        IF Len(caches) >= MAX_CACHED_SESSIONS /\ ~MapHas(caches, sessionID)
          THEN MapDelete(caches, FirstKey(caches))
          ELSE caches
  IN IF ~MapHas(evicted, sessionID)
       THEN Append(evicted, [id |-> sessionID, injectedPaths |-> {}])
       ELSE evicted

\* A loop that never marks a fragment as delivered
AddInjected_Noop(caches, sessionID, agentsPath) == caches

\* One set shared by all sessions instead of one per session
AddInjected_Everywhere(caches, sessionID, agentsPath) ==
  [i \in 1..Len(caches) |->
     [caches[i] EXCEPT !.injectedPaths = @ \cup {agentsPath}]]

\* cache.injectedPaths.add(agentsPath) on the entry of sessionID
AddInjected(caches, sessionID, agentsPath) ==
  [i \in 1..Len(caches) |->
     IF caches[i].id = sessionID
       THEN [caches[i] EXCEPT !.injectedPaths = @ \cup {agentsPath}]
       ELSE caches[i]]

\* ------------------------------------------------------------------ the walk

\* The file a path names: the file system resolves a relative path against
\* the working directory, so s/AGENTS.md and /p/s/AGENTS.md are one file.
\* files holds every file under its absolute name.
FileOf(filePath) == PathResolve(filePath)

\* fs.statSync(filePath): "file", "dir", or "throws" for a path that does
\* not exist
StatSync(files, filePath) ==
  IF filePath # << >> /\ FileOf(filePath) \in DOMAIN files
    THEN files[FileOf(filePath)]
    ELSE "throws"

\* The inner loop testing existence instead of stat.isFile()
RECURSIVE FirstMatch_Exists(_, _, _, _)
FirstMatch_Exists(current, filenames, i, files) ==
  IF i > Len(filenames) THEN << >>
  ELSE LET filePath == PathJoin(current, filenames[i]) IN
    IF StatSync(files, filePath) # "throws" THEN <<filePath>>
    ELSE FirstMatch_Exists(current, filenames, i + 1, files)

\* The inner loop of findAgentsFilesUp over config.filenames from index i:
\* the first candidate of directory current that is a regular file, as a
\* sequence of zero or one paths.
RECURSIVE FirstMatch(_, _, _, _)
FirstMatch(current, filenames, i, files) ==
  IF i > Len(filenames) THEN << >>
  ELSE LET filePath == PathJoin(current, filenames[i]) IN
    IF StatSync(files, filePath) = "file" THEN <<filePath>>
    ELSE FirstMatch(current, filenames, i + 1, files)

\* The most iterations a loop that does not end by itself is followed for
MaxVisits == 8

\* The while loop without the test of line 83, followed for at most
\* MaxVisits iterations
RECURSIVE WalkLoop_NoParentTest(_, _, _, _, _, _)
WalkLoop_NoParentTest(current, rootDir, cfg, files, found, visited) ==
  LET isAtRoot == current = rootDir
      isAboveRoot == ~StartsWith(current, rootDir) /\ current # rootDir
      found1 == IF ~isAtRoot \/ ~cfg.excludeRoot
                  THEN found \o FirstMatch(current, cfg.filenames, 1, files)
                  ELSE found
      visited1 == Append(visited, current)
      parent == PathDirname(current)
  IN IF isAtRoot \/ isAboveRoot THEN [found |-> found1, visited |-> visited1]
     ELSE IF Len(visited1) >= MaxVisits
       THEN [found |-> found1, visited |-> visited1]
     ELSE WalkLoop_NoParentTest(parent, rootDir, cfg, files, found1, visited1)

\* The while loop of findAgentsFilesUp, lines 54-84, from directory current
\* on: found is what the earlier iterations pushed, visited the values
\* current took in them.  The result is found after the loop and the values
\* current took, one for every iteration, in order.
RECURSIVE WalkLoop(_, _, _, _, _, _)
WalkLoop(current, rootDir, cfg, files, found, visited) ==
  LET isAtRoot == current = rootDir
      isAboveRoot == ~StartsWith(current, rootDir) /\ current # rootDir
      found1 == IF ~isAtRoot \/ ~cfg.excludeRoot
                  THEN found \o FirstMatch(current, cfg.filenames, 1, files)
                  ELSE found
      visited1 == Append(visited, current)
      parent == PathDirname(current)
  IN IF isAtRoot \/ isAboveRoot THEN [found |-> found1, visited |-> visited1]
     ELSE IF parent = current THEN [found |-> found1, visited |-> visited1]
     ELSE WalkLoop(parent, rootDir, cfg, files, found1, visited1)

\* found when the loop that started at current has ended
WalkUp(current, rootDir, cfg, files, found) ==
  WalkLoop(current, rootDir, cfg, files, found, << >>).found

\* Array.prototype.reverse
Reverse(s) == [i \in 1..Len(s) |-> s[Len(s) + 1 - i]]

\* findAgentsFilesUp without the reverse of line 87
findAgentsFilesUp_NoReverse(startDir, rootDir, cfg, files) ==
  WalkUp(startDir, rootDir, cfg, files, << >>)

findAgentsFilesUp(startDir, rootDir, cfg, files) ==
  Reverse(WalkUp(startDir, rootDir, cfg, files, << >>))

\* fs.existsSync(filePath), line 357
ExistsSync(files, filePath) ==
  filePath # << >> /\ FileOf(filePath) \in DOMAIN files

\* The inner loop of the earlier revision, lines 355-361: the first
\* candidate of directory current that exists.
RECURSIVE FirstMatchEarlier(_, _, _, _)
FirstMatchEarlier(current, filenames, i, files) ==
  IF i > Len(filenames) THEN << >>
  ELSE LET filePath == PathJoin(current, filenames[i]) IN
    IF ExistsSync(files, filePath) THEN <<filePath>>
    ELSE FirstMatchEarlier(current, filenames, i + 1, files)

\* The earlier loop without the break of lines 350-352
RECURSIVE WalkUpEarlier_KeepRoot(_, _, _, _, _)
WalkUpEarlier_KeepRoot(current, rootDir, cfg, files, found) ==
  LET isRootOrAbove == current = rootDir \/ ~StartsWith(current, rootDir)
      found1 == found \o FirstMatchEarlier(current, cfg.filenames, 1, files)
      parent == PathDirname(current)
  IN IF isRootOrAbove THEN found1
     ELSE IF parent = current THEN found1
     ELSE WalkUpEarlier_KeepRoot(parent, rootDir, cfg, files, found1)

\* The while loop of the earlier revision, lines 345-369, from directory
\* current on, found being what the earlier iterations pushed.
RECURSIVE WalkUpEarlier(_, _, _, _, _)
WalkUpEarlier(current, rootDir, cfg, files, found) ==
  LET isRootOrAbove == current = rootDir \/ ~StartsWith(current, rootDir)
      found1 == found \o FirstMatchEarlier(current, cfg.filenames, 1, files)
      parent == PathDirname(current)
  IN IF cfg.excludeRoot /\ isRootOrAbove THEN found
     ELSE IF isRootOrAbove THEN found1
     ELSE IF parent = current THEN found1
     ELSE WalkUpEarlier(parent, rootDir, cfg, files, found1)

\* findAgentsFilesUp of the earlier revision, lines 337-373
findAgentsFilesUpEarlier(startDir, rootDir, cfg, files) ==
  Reverse(WalkUpEarlier(startDir, rootDir, cfg, files, << >>))

\* ------------------------------------------------------------------ truncation

\* String.prototype.slice(0, end): a negative end counts from the end of
\* the string
Slice0(s, end) ==
  LET stop == IF end < 0 THEN (IF Len(s) + end < 0 THEN 0 ELSE Len(s) + end)
              ELSE (IF end > Len(s) THEN Len(s) ELSE end)
  IN SubSeq(s, 1, stop)

\* String.prototype.lastIndexOf(t): the greatest 0-based index at which t
\* occurs in s, -1 when it does not occur
LastIndexOf(s, t) ==
  LET hits == {i \in 0..(Len(s) - Len(t)) : SubSeq(s, i + 1, i + Len(t)) = t}
  IN IF hits = {} THEN -1 ELSE CHOOSE i \in hits : \A j \in hits : j <= i

ParagraphBreak == <<"\n", "\n">>
RuleBreak == <<"\n", "-", "-", "-", "\n">>

\* Line 101: the note appended to a truncated fragment
TruncationNote(relativePath) ==
  <<"\n", "\n", "[Note: Content truncated. Read full file: ">>
    \o relativePath \o <<"]">>

\* Lines 94-98: the index of the last boundary in the first maxSize
\* characters, -1 when there is none
LastBoundary(content, maxSize) ==
  LET truncated == Slice0(content, maxSize)
      a == LastIndexOf(truncated, ParagraphBreak)
      b == LastIndexOf(truncated, RuleBreak)
  IN IF a >= b THEN a ELSE b

\* The cut made at a boundary that is at 80% of maxSize or beyond
KeptPrefix_FromEighty(content, maxSize) ==
  LET truncated == Slice0(content, maxSize)
      lastBoundary == LastBoundary(content, maxSize)
  IN IF 5 * lastBoundary >= 4 * maxSize
       THEN Slice0(truncated, lastBoundary)
       ELSE truncated

\* Lines 94-107: the part of the content a truncation keeps.  The test
\* lastBoundary > maxSize * 0.8 is made on integers: 5 * lastBoundary >
\* 4 * maxSize.
KeptPrefix(content, maxSize) ==
  LET truncated == Slice0(content, maxSize)
      lastBoundary == LastBoundary(content, maxSize)
  IN IF 5 * lastBoundary > 4 * maxSize
       THEN Slice0(truncated, lastBoundary)
       ELSE truncated

\* truncateContent without the test of line 91
truncateContent_Always(content, maxSize, filePath, rootDir) ==
  KeptPrefix(content, maxSize)
    \o TruncationNote(PathRelative(rootDir, filePath))

\* truncateContent, lines 90-108
truncateContent(content, maxSize, filePath, rootDir) ==
  IF Len(content) <= maxSize THEN content
  ELSE KeptPrefix(content, maxSize)
         \o TruncationNote(PathRelative(rootDir, filePath))

\* ------------------------------------------------------------------ read hook

\* Lines 147-149: the absolute path of the read target
AbsolutePath(filePath, rootDir) ==
  IF IsAbsolute(filePath) THEN filePath ELSE PathJoin(rootDir, filePath)

\* Line 154 and line 235: the containment test of both handlers
WithinWorkspace(resolvedPath, resolvedRoot) ==
  StartsWith(resolvedPath, resolvedRoot)

\* The loop without the test of line 172
AlreadyInjected_Never(caches, sessionID, agentsPath) == FALSE

\* Line 172: cache.injectedPaths.has(agentsPath)
AlreadyInjected(caches, sessionID, agentsPath) ==
  agentsPath \in InjectedPaths(caches, sessionID)

\* The loop marking a fragment before reading it
RECURSIVE InjectLoop_MarkFirst(_, _, _, _, _, _, _)
InjectLoop_MarkFirst(agentsFiles, i, caches, sessionID, unreadable, contexts, failed) ==
  IF i > Len(agentsFiles)
    THEN [caches |-> caches, contexts |-> contexts, failed |-> failed]
  ELSE LET agentsPath == agentsFiles[i] IN
    IF AlreadyInjected(caches, sessionID, agentsPath)
      THEN InjectLoop_MarkFirst(agentsFiles, i + 1, caches, sessionID,
                                unreadable, contexts, failed)
    ELSE IF agentsPath \in unreadable
      THEN InjectLoop_MarkFirst(agentsFiles, i + 1,
                                AddInjected(caches, sessionID, agentsPath),
                                sessionID, unreadable, contexts,
                                Append(failed, agentsPath))
    ELSE InjectLoop_MarkFirst(agentsFiles, i + 1,
                              AddInjected(caches, sessionID, agentsPath),
                              sessionID, unreadable,
                              Append(contexts, agentsPath), failed)

\* The for loop of lines 170-185 from index i on.  unreadable is the set of
\* paths for which fs.readFileSync throws during this event.  The result is
\* the table, the contexts pushed (by fragment path) and the paths whose
\* read threw.
RECURSIVE InjectLoop(_, _, _, _, _, _, _)
InjectLoop(agentsFiles, i, caches, sessionID, unreadable, contexts, failed) ==
  IF i > Len(agentsFiles)
    THEN [caches |-> caches, contexts |-> contexts, failed |-> failed]
  ELSE LET agentsPath == agentsFiles[i] IN
    IF AlreadyInjected(caches, sessionID, agentsPath)
      THEN InjectLoop(agentsFiles, i + 1, caches, sessionID, unreadable,
                      contexts, failed)
    ELSE IF agentsPath \in unreadable
      THEN InjectLoop(agentsFiles, i + 1, caches, sessionID, unreadable,
                      contexts, Append(failed, agentsPath))
    ELSE InjectLoop(agentsFiles, i + 1,
                    AddInjected(caches, sessionID, agentsPath), sessionID,
                    unreadable, Append(contexts, agentsPath), failed)

\* What a handler run reports when it returns before doing anything.
Nothing(caches) ==
  [caches |-> caches, accepted |-> FALSE, agentsFiles |-> << >>,
   contexts |-> << >>, failed |-> << >>]

\* The tool_result handler, lines 136-204.  arg is event.input?.path:
\* [isString, str], str being the string when it is one.
ToolResult(caches, cfg, files, toolName, sessionID, arg, unreadable) ==
  IF toolName # "read" THEN Nothing(caches)
  ELSE IF ~arg.isString \/ arg.str = << >> THEN Nothing(caches)
  ELSE LET filePath == arg.str
           rootDir == RootDir
           absolutePath == AbsolutePath(filePath, rootDir)
           resolvedPath == PathResolve(absolutePath)
           resolvedRoot == PathResolve(rootDir)
       IN IF ~WithinWorkspace(resolvedPath, resolvedRoot) THEN Nothing(caches)
          ELSE LET dir == PathDirname(absolutePath)
                   cache == getSessionCache(caches, sessionID)
                   agentsFiles == findAgentsFilesUp(dir, resolvedRoot, cfg, files)
                   loop == InjectLoop(agentsFiles, 1, cache, sessionID,
                                      unreadable, << >>, << >>)
               IN [caches |-> loop.caches, accepted |-> TRUE,
                   agentsFiles |-> agentsFiles, contexts |-> loop.contexts,
                   failed |-> loop.failed]

\* fs.readFileSync(agentsPath, "utf-8") when it succeeds: in this world the
\* text of a fragment is "#" followed by the name of its directory.
FileContent(agentsPath) == <<"#">> \o PathDirname(agentsPath)

\* Lines 175-179: the context string pushed for one fragment
DirectoryContext(cfg, agentsPath, resolvedRoot) ==
  LET content == FileContent(agentsPath)
      truncated == truncateContent(content, cfg.maxContextSize, agentsPath,
                                   resolvedRoot)
      relativePath == PathRelative(resolvedRoot, agentsPath)
  IN <<"[Directory Context: ">> \o relativePath \o <<"]", "\n">> \o truncated

\* Array.prototype.join(separator) from index i on
RECURSIVE JoinStrings(_, _, _)
JoinStrings(strings, separator, i) ==
  IF i > Len(strings) THEN << >>
  ELSE IF i = Len(strings) THEN strings[i]
  ELSE strings[i] \o separator \o JoinStrings(strings, separator, i + 1)

TextBlock(text) == [type |-> "text", text |-> text]

\* A handler that returns undefined: the host keeps the original result.
Undefined == [kind |-> "undefined", content |-> << >>, details |-> "",
              isError |-> FALSE]

\* The result with the block ahead of the original content
ToolResultReturn_BlockFirst(event, cfg, contexts, resolvedRoot) ==
  IF Len(contexts) > 0
    THEN [kind |-> "result",
          content |-> <<TextBlock(<<"context">>)>> \o event.content,
          details |-> event.details, isError |-> event.isError]
    ELSE Undefined

\* The result whose block holds only the context string pushed last
ToolResultReturn_LastOnly(event, cfg, contexts, resolvedRoot) ==
  IF Len(contexts) > 0
    THEN [kind |-> "result",
          content |-> Append(event.content,
                        TextBlock(CONTEXT_SEPARATOR
                          \o DirectoryContext(cfg, contexts[Len(contexts)],
                                              resolvedRoot))),
          details |-> event.details, isError |-> event.isError]
    ELSE Undefined

\* Lines 187-203: what the tool_result handler returns, contexts being the
\* fragment paths whose context strings were pushed, in order.
ToolResultReturn(event, cfg, contexts, resolvedRoot) ==
  IF Len(contexts) > 0
    THEN LET strings == [i \in 1..Len(contexts) |->
                           DirectoryContext(cfg, contexts[i], resolvedRoot)]
             contextBlock == CONTEXT_SEPARATOR
                               \o JoinStrings(strings, CONTEXT_SEPARATOR, 1)
         IN [kind |-> "result",
             content |-> Append(event.content, TextBlock(contextBlock)),
             details |-> event.details, isError |-> event.isError]
    ELSE Undefined

\* ------------------------------------------------------------------ inject_context

\* Line 232: the directory the manual tool walks up from
AbsoluteDir(dir, resolvedRoot) ==
  IF IsAbsolute(dir) THEN PathResolve(dir) ELSE PathJoin(resolvedRoot, dir)

\* inject_context.execute walking with the configuration as it is
InjectContextResult_AsConfigured(cfg, files, dir, unreadable) ==
  LET resolvedRoot == PathResolve(RootDir)
      absoluteDir == AbsoluteDir(dir, resolvedRoot)
  IN IF ~WithinWorkspace(absoluteDir, resolvedRoot)
       THEN [accepted |-> FALSE, agentsFiles |-> << >>, entries |-> << >>]
       ELSE LET agentsFiles ==
                  findAgentsFilesUp(absoluteDir, resolvedRoot, cfg, files)
            IN [accepted |-> TRUE, agentsFiles |-> agentsFiles,
                entries |-> [i \in 1..Len(agentsFiles) |->
                               [path |-> agentsFiles[i],
                                error |-> agentsFiles[i] \in unreadable]]]

\* inject_context.execute, lines 228-268: whether the directory passed the
\* containment test, the fragments found, and the entries of the returned
\* text in order: for each fragment its path and whether its read threw.
InjectContextResult(cfg, files, dir, unreadable) ==
  LET resolvedRoot == PathResolve(RootDir)
      absoluteDir == AbsoluteDir(dir, resolvedRoot)
  IN IF ~WithinWorkspace(absoluteDir, resolvedRoot)
       THEN [accepted |-> FALSE, agentsFiles |-> << >>, entries |-> << >>]
       ELSE LET agentsFiles ==
                  findAgentsFilesUp(absoluteDir, resolvedRoot,
                                    [cfg EXCEPT !.excludeRoot = FALSE], files)
            IN [accepted |-> TRUE, agentsFiles |-> agentsFiles,
                entries |-> [i \in 1..Len(agentsFiles) |->
                               [path |-> agentsFiles[i],
                                error |-> agentsFiles[i] \in unreadable]]]

\* Lines 236-267: what inject_context.execute returns for the outcome r of
\* InjectContextResult.
InjectContextReturn(cfg, dir, r) ==
  LET resolvedRoot == PathResolve(RootDir)
      one(text, isError) ==
        [kind |-> "result", content |-> <<TextBlock(text)>>, details |-> "",
         isError |-> isError]
  IN IF ~r.accepted
       THEN one(<<"Error: Directory ">> \o dir \o <<" is outside the workspace">>,
                TRUE)
     ELSE IF Len(r.agentsFiles) = 0
       THEN one(<<"No AGENTS.md files found in ">> \o dir
                  \o <<" or parent directories">>, FALSE)
     ELSE LET strings ==
                [i \in 1..Len(r.entries) |->
                   IF r.entries[i].error
                     THEN <<"[Error reading ">> \o r.entries[i].path \o <<"]">>
                     ELSE <<"[">> \o PathRelative(resolvedRoot, r.entries[i].path)
                            \o <<"]:", "\n">>
                            \o truncateContent(FileContent(r.entries[i].path),
                                               cfg.maxContextSize,
                                               r.entries[i].path, resolvedRoot)]
          IN one(JoinStrings(strings, CONTEXT_SEPARATOR, 1), FALSE)

\* ------------------------------------------------------------------ configuration

\* The configuration with the user's filenames replacing the defaults
LoadConfig_Replace(user) ==
  LET has(k) == k \in DOMAIN user
  IN [enabled |-> IF has("enabled") THEN user.enabled ELSE TRUE,
      maxContextSize |-> IF has("maxContextSize") THEN user.maxContextSize
                         ELSE MAX_CONTEXT_SIZE,
      filenames |-> IF has("filenames") THEN user.filenames
                    ELSE AGENTS_FILENAMES,
      excludeRoot |-> IF has("excludeRoot") THEN user.excludeRoot ELSE TRUE]

\* Lines 112-126: the configuration, from pi.config.progressiveContext
\* (user: a record with any of the keys enabled, maxContextSize, filenames,
\* excludeRoot; the empty record when nothing is configured)
LoadConfig(user) ==
  LET has(k) == k \in DOMAIN user
      spread == [enabled |-> IF has("enabled") THEN user.enabled ELSE TRUE,
                 maxContextSize |-> IF has("maxContextSize")
                                      THEN user.maxContextSize
                                      ELSE MAX_CONTEXT_SIZE,
                 filenames |-> IF has("filenames") THEN user.filenames
                               ELSE AGENTS_FILENAMES,
                 excludeRoot |-> IF has("excludeRoot") THEN user.excludeRoot
                                 ELSE TRUE]
  IN IF has("filenames")
       THEN [spread EXCEPT !.filenames = AGENTS_FILENAMES \o user.filenames]
       ELSE spread

NoUserConfig == << >>

\* ------------------------------------------------------------------ the world

\* The sessions that read files, run /context and shut down.
MaxHot == 2
Hot == 1..MaxHot

\* The sessions that only run /context.
MaxGuests == 1
Guests == (MaxHot + 1)..(MaxHot + MaxGuests)

\* The sessions that ran /context once and are not heard of again.
Cold == (MaxHot + MaxGuests + 1)..(MaxHot + MaxGuests + MAX_CACHED_SESSIONS - 2)

\* The table after session 1 ran /context and then every cold session did,
\* in the order of their identifiers: one entry short of the capacity.
WarmTable ==
  [i \in 1..(MAX_CACHED_SESSIONS - 1) |->
     [id |-> IF i = 1 THEN 1 ELSE MaxHot + MaxGuests + i - 1,
      injectedPaths |-> {}]]

SrcDir == <<Sep, "p", Sep, "s">>
ApiDir == <<Sep, "p", Sep, "s", Sep, "a">>
SiblingDir == <<Sep, "p", "2">>
TopDir == <<Sep>>
OtherDir == <<Sep, "q">>

\* A file system from the set of its regular files and the set of its
\* directories among the candidate locations.
FileSystem(regular, directories) ==
  [f \in regular \cup directories |-> IF f \in regular THEN "file" ELSE "dir"]

\* /p/AGENTS.md, /p/s/AGENTS.md and /p/s/a/AGENTS.md
ExampleFS ==
  FileSystem({PathJoin(RootDir, AgentsMd), PathJoin(SrcDir, AgentsMd),
              PathJoin(ApiDir, AgentsMd)}, {})

Str(p) == [isString |-> TRUE, str |-> p]

\* The tool_result event of a tool called with path argument arg, whose
\* result is one text block and no error.
Event(toolName, arg) ==
  [toolName |-> toolName, input |-> arg, content |-> <<TextBlock(<<"r">>)>>,
   details |-> "d", isError |-> FALSE]

\* The read targets of the session machine: /p/s/a/x and s/x
SessionTargets == {Str(ApiDir \o <<Sep, "x">>), Str(<<"s", Sep, "x">>)}

\* The regular files of a file system
RegularFiles(files) == {f \in DOMAIN files : files[f] = "file"}

\* ------------------------------------------------------------------ actions

\* The record of a handler run: the handler, its session and argument,
\* whether it got past its validation, the fragments it resolved, those it
\* returned the text of, those whose read threw, and, for a read event,
\* those of the returned ones the session held when it was last shut down,
\* those of the returned ones whose read threw earlier in the session, the
\* event and what the handler returned to the host; for a run of
\* truncateContent alone, the string it returned; for a run of
\* findAgentsFilesUp alone, the directories its loop went through and what
\* the earlier revision of the function returns for the same arguments,
\* and the root the function was given when it is not the workspace root.
NoRun ==
  [op |-> "init", sid |-> 0, arg |-> << >>, accepted |-> FALSE,
   agentsFiles |-> << >>, contexts |-> << >>, failed |-> << >>,
   reinjected |-> {}, retried |-> {}, event |-> Event("", Str(<< >>)),
   returned |-> Undefined, text |-> << >>, visited |-> << >>,
   earlier |-> << >>, root |-> << >>]

\* once, twice: the fragments injected into a session's read results at
\* least once, at least twice, since its last shutdown; lifeOnce, lifeTwice:
\* the same since its entry was last removed (shut down or evicted);
\* shutWith: the delivered set its entry held when it was last shut down,
\* kept until the next accepted read event of the session; unread: the
\* fragments whose read threw in an event of the session and that the
\* session has not been handed since; user: pi.config.progressiveContext
\* as the extension found it when it was constructed.
EmptyHist ==
  [once |-> [s \in Hot |-> {}], twice |-> [s \in Hot |-> {}],
   lifeOnce |-> [s \in Hot |-> {}], lifeTwice |-> [s \in Hot |-> {}],
   shutWith |-> [s \in Hot |-> {}], unread |-> [s \in Hot |-> {}],
   user |-> NoUserConfig]

Range(seq) == {seq[i] : i \in 1..Len(seq)}

\* The handler calls that are followed statement by statement, numbered in
\* the order in which the host makes them.
MaxCalls == 2
Calls == 1..MaxCalls

\* A call the host has not made yet: pc is where the call stands ("idle",
\* then "loop" at line 170/172, "read" at line 174, "return" at line 187,
\* "done"), the rest are its locals.
IdleCall ==
  [pc |-> "idle", sid |-> 0, event |-> Event("", Str(<< >>)),
   agentsFiles |-> << >>, i |-> 0, contexts |-> << >>, failed |-> << >>]

NoCalls == [c \in Calls |-> IdleCall]

\* The history after a step that took the table from caches to caches2:
\* a session whose entry was removed starts a new tracking period.
Untrack(h, caches, caches2) ==
  LET gone == Keys(caches) \ Keys(caches2)
  IN [h EXCEPT
        !.lifeOnce = [s \in Hot |-> IF s \in gone THEN {} ELSE @[s]],
        !.lifeTwice = [s \in Hot |-> IF s \in gone THEN {} ELSE @[s]]]

\* The history after session sid was handed the fragments of contexts.
Shown(h, sid, contexts) ==
  LET new == Range(contexts)
      dup == {contexts[i] : i \in {j \in 1..Len(contexts) :
                \E k \in 1..(j - 1) : contexts[k] = contexts[j]}}
  IN IF sid \notin Hot THEN h
     ELSE [h EXCEPT
        !.twice[sid] = @ \cup (h.once[sid] \cap new) \cup dup,
        !.once[sid] = @ \cup new,
        !.lifeTwice[sid] = @ \cup (h.lifeOnce[sid] \cap new) \cup dup,
        !.lifeOnce[sid] = @ \cup new]

InitWith(table, user, files) ==
  /\ sessionCaches = table
  /\ config = LoadConfig(user)
  /\ fs = files
  /\ last = NoRun
  /\ hist = [EmptyHist EXCEPT !.user = user]
  /\ runs = NoCalls

\* pi.on("tool_result"), lines 136-204, for the event and the session of
\* its context; unreadable is the set of paths fs.readFileSync throws for.
ReadHook(event, sessionID, unreadable) ==
  /\ config.enabled
  /\ \E r \in {ToolResult(sessionCaches, config, fs, event.toolName,
                          sessionID, event.input, unreadable)} :
        /\ sessionCaches' = r.caches
        /\ last' = [op |-> "read", sid |-> sessionID, arg |-> event.input.str,
                    accepted |-> r.accepted, agentsFiles |-> r.agentsFiles,
                    contexts |-> r.contexts, failed |-> r.failed,
                    reinjected |-> IF sessionID \in Hot
                                     THEN Range(r.contexts) \cap hist.shutWith[sessionID]
                                     ELSE {},
                    retried |-> IF sessionID \in Hot
                                  THEN Range(r.contexts) \cap hist.unread[sessionID]
                                  ELSE {},
                    event |-> event,
                    returned |-> ToolResultReturn(event, config, r.contexts,
                                                  PathResolve(RootDir)),
                    text |-> << >>, visited |-> << >>, earlier |-> << >>,
                 root |-> << >>]
        /\ hist' = [Shown(Untrack(hist, sessionCaches, r.caches), sessionID,
                          r.contexts) EXCEPT
                      !.shutWith = [s \in Hot |->
                                      IF s = sessionID /\ r.accepted
                                        THEN {} ELSE @[s]],
                      !.unread = [s \in Hot |->
                                    IF s = sessionID
                                      THEN (@[s] \ Range(r.contexts))
                                             \cup Range(r.failed)
                                      ELSE @[s]]]
  /\ UNCHANGED <<config, fs, runs>>

\* pi.on("session_shutdown"), lines 207-211
SessionShutdown(sessionID) ==
  /\ config.enabled
  /\ sessionCaches' = MapDelete(sessionCaches, sessionID)
  /\ last' = [NoRun EXCEPT !.op = "shutdown", !.sid = sessionID,
                           !.accepted = TRUE]
  /\ hist' = [Untrack(hist, sessionCaches, sessionCaches') EXCEPT
                !.once = [s \in Hot |-> IF s = sessionID THEN {} ELSE @[s]],
                !.twice = [s \in Hot |-> IF s = sessionID THEN {} ELSE @[s]],
                !.shutWith = [s \in Hot |->
                                IF s = sessionID
                                  THEN InjectedPaths(sessionCaches, s)
                                  ELSE @[s]]]
  /\ UNCHANGED <<config, fs, runs>>

\* The inject_context tool, lines 228-268
InjectContext(dir, unreadable) ==
  /\ config.enabled
  /\ \E r \in {InjectContextResult(config, fs, dir, unreadable)} :
     LET ok == SelectSeq(r.entries, LAMBDA e : ~e.error)
         bad == SelectSeq(r.entries, LAMBDA e : e.error)
     IN last' = [op |-> "inject", sid |-> 0, arg |-> dir,
                 accepted |-> r.accepted, agentsFiles |-> r.agentsFiles,
                 contexts |-> [i \in 1..Len(ok) |-> ok[i].path],
                 failed |-> [i \in 1..Len(bad) |-> bad[i].path],
                 reinjected |-> {}, retried |-> {},
                 event |-> NoRun.event,
                 returned |-> InjectContextReturn(config, dir, r),
                 text |-> << >>, visited |-> << >>, earlier |-> << >>,
                 root |-> << >>]
  /\ UNCHANGED <<sessionCaches, config, fs, hist, runs>>

\* The /context command, lines 272-293
ContextCommand(sessionID) ==
  /\ config.enabled
  /\ sessionCaches' = getSessionCache(sessionCaches, sessionID)
  /\ last' = [NoRun EXCEPT !.op = "context", !.sid = sessionID,
                           !.accepted = TRUE]
  /\ hist' = Untrack(hist, sessionCaches, sessionCaches')
  /\ UNCHANGED <<config, fs, runs>>

\* ------------------------------------------------------------------ the session machine

\* The machine starts with the empty table of line 29 or with the warm one.
Init ==
  \E table \in {<< >>, WarmTable} : InitWith(table, NoUserConfig, ExampleFS)

\* The read events of the session machine
SessionEvents == {Event("read", arg) : arg \in SessionTargets}

Next ==
  \/ \E sid \in Hot, event \in SessionEvents : ReadHook(event, sid, {})
  \/ \E sid \in Hot : SessionShutdown(sid)
  \/ \E sid \in Hot \cup Guests : ContextCommand(sid)
  \/ \E dir \in {SrcDir} : InjectContext(dir, {})

Spec == Init /\ [][Next]_vars

\* ------------------------------------------------------------------ the hook machine

\* AGENTS.md in /, /p, /p/s, /p/s/a and /p2
FullFS ==
  FileSystem({PathJoin(d, AgentsMd) :
                d \in {TopDir, RootDir, SrcDir, ApiDir, SiblingDir}}, {})

NotAString == [isString |-> FALSE, str |-> << >>]

\* The path arguments of the read events: /p/s/a/x, /p/s/x, /p, /p/s/../x,
\* /p2/x, /q/x, /p/../q/x, s/x, x, ../p2/x, the empty string and a value
\* that is no string.
HookTargets ==
  {Str(ApiDir \o <<Sep, "x">>), Str(SrcDir \o <<Sep, "x">>), Str(RootDir),
   Str(SrcDir \o <<Sep, DotDot, Sep, "x">>),
   Str(SiblingDir \o <<Sep, "x">>), Str(OtherDir \o <<Sep, "x">>),
   Str(RootDir \o <<Sep, DotDot, Sep, "q", Sep, "x">>),
   Str(<<"s", Sep, "x">>), Str(<<"x">>),
   Str(<<DotDot, Sep, "p", "2", Sep, "x">>),
   Str(<< >>), NotAString}

\* The directory arguments of inject_context: /p/s/a, /p, /p2, /q, s and
\* ../p2
HookDirs ==
  {ApiDir, RootDir, SiblingDir, OtherDir, <<"s">>, <<DotDot, Sep, "p", "2">>}

HookSessions == {1}

InitHook ==
  \E user \in {NoUserConfig, [excludeRoot |-> FALSE]},
     files \in {FullFS, ExampleFS} :
    InitWith(<< >>, user, files)

\* The read events of the hook machine, and the events of another tool
HookEvents == {Event("read", arg) : arg \in HookTargets}
BashEvents == {Event("bash", Str(<<"s", Sep, "x">>))}

\* The sets of fragments whose read throws during one run
HookUnreadable == {{}, {PathJoin(SrcDir, AgentsMd)}}

NextHook ==
  \/ \E sid \in HookSessions, event \in HookEvents,
        unreadable \in HookUnreadable :
       ReadHook(event, sid, unreadable)
  \/ \E sid \in HookSessions, event \in BashEvents : ReadHook(event, sid, {})
  \/ \E sid \in HookSessions : SessionShutdown(sid)
  \/ \E sid \in HookSessions : ContextCommand(sid)
  \/ \E dir \in HookDirs, unreadable \in HookUnreadable :
       InjectContext(dir, unreadable)

SpecHook == InitHook /\ [][NextHook]_vars

\* ------------------------------------------------------------------ the event machine

\* /p/AGENTS.md and /p/s/a/AGENTS.md are regular files; in /p/s, AGENTS.md
\* is a directory and CLAUDE.md a regular file.
MixedFS ==
  FileSystem({PathJoin(RootDir, AgentsMd), PathJoin(SrcDir, ClaudeMd),
              PathJoin(ApiDir, AgentsMd)},
             {PathJoin(SrcDir, AgentsMd)})

\* The path arguments of the events: /p/s/a/x, s/x, /p/s/a/../x, /q/x, the
\* empty string and a value that is no string.
EventTargets ==
  {Str(ApiDir \o <<Sep, "x">>), Str(<<"s", Sep, "x">>),
   Str(ApiDir \o <<Sep, DotDot, Sep, "x">>), Str(OtherDir \o <<Sep, "x">>),
   Str(<< >>), NotAString}

\* The results the read tool hands to the hook: no content block and no
\* error, or two blocks and the error flag.
EventResults ==
  {[content |-> << >>, details |-> "d0", isError |-> FALSE],
   [content |-> <<TextBlock(<<"r", "1">>), TextBlock(<<"r", "2">>)>>,
    details |-> "d1", isError |-> TRUE]}

EventOf(toolName, arg, result) ==
  [toolName |-> toolName, input |-> arg, content |-> result.content,
   details |-> result.details, isError |-> result.isError]

\* The candidates of /p/s, and the fragment of /p/s/a
SrcFragments == {PathJoin(SrcDir, AgentsMd), PathJoin(SrcDir, ClaudeMd)}
ApiFragment == PathJoin(ApiDir, AgentsMd)

\* The sets of fragments whose read throws during one event
UnreadableSets == {{}, SrcFragments, {ApiFragment}, SrcFragments \cup {ApiFragment}}

EventSessions == {1}

\* The directory arguments of inject_context: /p/s/a, s and /q
EventDirs == {ApiDir, <<"s">>, OtherDir}

InitEvent ==
  \E user \in {NoUserConfig, [excludeRoot |-> FALSE]},
     files \in {ExampleFS, MixedFS} :
    InitWith(<< >>, user, files)

\* The events of the read tool and those of another tool
ReadEvents ==
  {EventOf("read", arg, result) : arg \in EventTargets, result \in EventResults}
OtherEvents ==
  {EventOf("bash", Str(<<"s", Sep, "x">>), result) : result \in EventResults}

NextEvent ==
  \/ \E sid \in EventSessions, event \in ReadEvents,
        unreadable \in UnreadableSets :
       ReadHook(event, sid, unreadable)
  \/ \E sid \in EventSessions, event \in OtherEvents :
       ReadHook(event, sid, {})
  \/ \E sid \in EventSessions : SessionShutdown(sid)
  \/ \E dir \in EventDirs, unreadable \in UnreadableSets :
       InjectContext(dir, unreadable)

SpecEvent == InitEvent /\ [][NextEvent]_vars

\* ------------------------------------------------------------------ the handler, statement by statement

\* Lines 137-165 of the tool_result handler: whether the event passed the
\* validation, the table after getSessionCache, and the fragments found.
HandlerStart(caches, cfg, files, toolName, sessionID, arg) ==
  LET rejected == [accepted |-> FALSE, caches |-> caches, agentsFiles |-> << >>]
  IN IF toolName # "read" THEN rejected
     ELSE IF ~arg.isString \/ arg.str = << >> THEN rejected
     ELSE LET absolutePath == AbsolutePath(arg.str, RootDir)
              resolvedRoot == PathResolve(RootDir)
          IN IF ~WithinWorkspace(PathResolve(absolutePath), resolvedRoot)
               THEN rejected
               ELSE [accepted |-> TRUE,
                     caches |-> getSessionCache(caches, sessionID),
                     agentsFiles |-> findAgentsFilesUp(PathDirname(absolutePath),
                                                       resolvedRoot, cfg, files)]

\* A handler with a suspension point in its body: another call may run
\* while this one stands in the middle
MayRun_Suspending(c) == TRUE

\* The handler is an async function whose body holds no await: once
\* called, it runs to its end before the host runs anything else.  A call
\* can execute its next statement only when no other call stands in the
\* middle of the body.
MayRun(c) == \A o \in Calls \ {c} : runs[o].pc \in {"idle", "done"}

\* What a finished call reports
Report(call, accepted, returned) ==
  [NoRun EXCEPT !.op = "read", !.sid = call.sid, !.arg = call.event.input.str,
                !.accepted = accepted, !.agentsFiles = call.agentsFiles,
                !.contexts = call.contexts, !.failed = call.failed,
                !.event = call.event,
                !.returned = returned]

\* The host calls the handler for an event of session sessionID: lines
\* 137-165, up to the loop
Begin(c, event, sessionID) ==
  /\ config.enabled
  /\ runs[c].pc = "idle"
  /\ \A o \in 1..(c - 1) : runs[o].pc # "idle"
  /\ MayRun(c)
  /\ \E st \in {HandlerStart(sessionCaches, config, fs, event.toolName,
                              sessionID, event.input)} :
       LET call == [pc |-> IF st.agentsFiles # << >> THEN "loop" ELSE "done",
                    sid |-> sessionID, event |-> event,
                    agentsFiles |-> st.agentsFiles, i |-> 1,
                    contexts |-> << >>, failed |-> << >>]
       IN /\ sessionCaches' = st.caches
          /\ hist' = Untrack(hist, sessionCaches, st.caches)
          /\ runs' = [runs EXCEPT ![c] = call]
          /\ last' = IF call.pc = "done"
                       THEN Report(call, st.accepted, Undefined)
                       ELSE last
  /\ UNCHANGED <<config, fs>>

\* Lines 170-172: the loop header and the test of the delivered set
Check(c) ==
  /\ runs[c].pc = "loop"
  /\ MayRun(c)
  /\ LET call == runs[c] IN
     runs' = [runs EXCEPT ![c] =
       IF call.i > Len(call.agentsFiles) THEN [call EXCEPT !.pc = "return"]
       ELSE IF AlreadyInjected(sessionCaches, call.sid, call.agentsFiles[call.i])
         THEN [call EXCEPT !.i = @ + 1]
         ELSE [call EXCEPT !.pc = "read"]]
  /\ UNCHANGED <<sessionCaches, config, fs, last, hist>>

\* Lines 174-180 when fs.readFileSync returns: the fragment is read, its
\* context string pushed and its path added to the delivered set
ReadAdd(c) ==
  /\ runs[c].pc = "read"
  /\ MayRun(c)
  /\ LET call == runs[c]
         agentsPath == call.agentsFiles[call.i]
     IN /\ sessionCaches' = AddInjected(sessionCaches, call.sid, agentsPath)
        /\ hist' = [Shown(hist, call.sid, <<agentsPath>>) EXCEPT
                      !.unread = [s \in Hot |->
                                    IF s = call.sid THEN @[s] \ {agentsPath}
                                    ELSE @[s]]]
        /\ runs' = [runs EXCEPT ![c] =
                      [call EXCEPT !.pc = "loop", !.i = @ + 1,
                                   !.contexts = Append(@, agentsPath)]]
  /\ UNCHANGED <<config, fs, last>>

\* Lines 174-175 and 181-184 when fs.readFileSync throws: the error is
\* logged, nothing is pushed or added, and the loop goes on
ReadThrow(c) ==
  /\ runs[c].pc = "read"
  /\ MayRun(c)
  /\ LET call == runs[c]
         agentsPath == call.agentsFiles[call.i]
     IN /\ hist' = [hist EXCEPT
                      !.unread = [s \in Hot |->
                                    IF s = call.sid THEN @[s] \cup {agentsPath}
                                    ELSE @[s]]]
        /\ runs' = [runs EXCEPT ![c] =
                      [call EXCEPT !.pc = "loop", !.i = @ + 1,
                                   !.failed = Append(@, agentsPath)]]
  /\ UNCHANGED <<sessionCaches, config, fs, last>>

\* Lines 187-204: the call returns
Return(c) ==
  /\ runs[c].pc = "return"
  /\ MayRun(c)
  /\ runs' = [runs EXCEPT ![c].pc = "done"]
  /\ last' = Report(runs[c], TRUE,
                    ToolResultReturn(runs[c].event, config, runs[c].contexts,
                                     PathResolve(RootDir)))
  /\ UNCHANGED <<sessionCaches, config, fs, hist>>

\* The events of the calls: reads of /p/s/a/x and s/x
StepEvents == {Event("read", arg) : arg \in SessionTargets}

StepSessions == {1, 2}

InitSteps ==
  \E user \in {NoUserConfig, [excludeRoot |-> FALSE]} :
    InitWith(<< >>, user, ExampleFS)

NextSteps ==
  \/ \E c \in Calls, event \in StepEvents, sid \in StepSessions :
       Begin(c, event, sid)
  \/ \E c \in Calls : Check(c)
  \/ \E c \in Calls : ReadAdd(c)
  \/ \E c \in Calls : ReadThrow(c)
  \/ \E c \in Calls : Return(c)

SpecSteps == InitSteps /\ [][NextSteps]_vars

\* ------------------------------------------------------------------ the walk alone

\* What one directory holds under the candidate names: the names that are
\* regular files and the names that are directories.
DirProfiles ==
  {[regular |-> {}, directories |-> {}],
   [regular |-> {AgentsMd}, directories |-> {}],
   [regular |-> {ClaudeMd}, directories |-> {AgentsMd}],
   [regular |-> {AgentsMd, ClaudeMd}, directories |-> {}],
   [regular |-> {ClaMd}, directories |-> {}],
   [regular |-> {}, directories |-> {AgentsMd}]}

\* The directories whose content varies; /p2 and /q always hold AGENTS.md.
VariedDirs == {TopDir, RootDir, SrcDir, ApiDir}

WalkFileSystems ==
  {FileSystem(
     {PathJoin(d, AgentsMd) : d \in {SiblingDir, OtherDir}}
       \cup UNION {{PathJoin(d, n) : n \in profile[d].regular} : d \in VariedDirs},
     UNION {{PathJoin(d, n) : n \in profile[d].directories} : d \in VariedDirs})
   : profile \in [VariedDirs -> DirProfiles]}

\* The start directories: /p, /p/s, /p/s/a, /, /p2, /q, /p/s/.., and the
\* malformed s, /p/s/ and /p//s
StartDirs ==
  {RootDir, SrcDir, ApiDir, TopDir, SiblingDir, OtherDir,
   SrcDir \o <<Sep, DotDot>>,
   <<"s">>, SrcDir \o <<Sep>>, RootDir \o <<Sep, Sep, "s">>}

InitWalk ==
  \E user \in {NoUserConfig, [excludeRoot |-> FALSE]},
     files \in WalkFileSystems :
    InitWith(<< >>, user, files)

\* findAgentsFilesUp(startDir, RootDir, config) on the file system, in both
\* revisions
Walk(startDir) ==
  /\ last' = [NoRun EXCEPT !.op = "walk", !.arg = startDir, !.accepted = TRUE,
                           !.agentsFiles =
                              findAgentsFilesUp(startDir, RootDir, config, fs),
                           !.visited =
                              WalkLoop(startDir, RootDir, config, fs,
                                       << >>, << >>).visited,
                           !.earlier =
                              findAgentsFilesUpEarlier(startDir, RootDir,
                                                       config, fs)]
  /\ UNCHANGED <<sessionCaches, config, fs, hist, runs>>

NextWalk == \E startDir \in StartDirs : Walk(startDir)

SpecWalk == InitWalk /\ [][NextWalk]_vars

\* ------------------------------------------------------------------ the walk under any root

\* The roots findAgentsFilesUp is given: /p, /, /p/s and the empty string
Roots == {RootDir, TopDir, SrcDir, << >>}

\* The start directories: those of StartDirs, and //a, //p/s, //a//b, //,
\* the empty string, ., .., s/a, s/ and ./s
RootStarts ==
  StartDirs \cup
  {<<Sep, Sep, "a">>, <<Sep, Sep, "p", Sep, "s">>,
   <<Sep, Sep, "a", Sep, Sep, "b">>, <<Sep, Sep>>, << >>, <<Dot>>,
   <<DotDot>>, <<"s", Sep, "a">>, <<"s", Sep>>, <<Dot, Sep, "s">>}

\* /AGENTS.md, /p/AGENTS.md, /a/AGENTS.md and /p/s/CLAUDE.md
TopFS ==
  FileSystem({PathJoin(TopDir, AgentsMd), PathJoin(RootDir, AgentsMd),
              PathJoin(<<Sep, "a">>, AgentsMd), PathJoin(SrcDir, ClaudeMd)},
             {})

RootFileSystems == {ExampleFS, MixedFS, TopFS}

InitRoots ==
  \E user \in {NoUserConfig, [excludeRoot |-> FALSE]},
     files \in RootFileSystems :
    InitWith(<< >>, user, files)

\* findAgentsFilesUp(startDir, rootDir, config) on the file system
WalkFrom(startDir, rootDir) ==
  /\ \E r \in {WalkLoop(startDir, rootDir, config, fs, << >>, << >>)} :
       last' = [NoRun EXCEPT !.op = "walkFrom", !.arg = startDir,
                             !.root = rootDir, !.accepted = TRUE,
                             !.agentsFiles =
                                findAgentsFilesUp(startDir, rootDir, config, fs),
                             !.visited = r.visited]
  /\ UNCHANGED <<sessionCaches, config, fs, hist, runs>>

NextRoots ==
  \E startDir \in RootStarts, rootDir \in Roots : WalkFrom(startDir, rootDir)

SpecRoots == InitRoots /\ [][NextRoots]_vars

\* ------------------------------------------------------------------ the walk with configured names

\* Two file names a user configures
TeamMd == <<"TEAM.md">>
ApiMd == <<"API.md">>

\* pi.config.progressiveContext: nothing, an empty list, lists of new
\* names, lists that repeat a default before or after a new name, and the
\* list of the README
UserConfigs ==
  {NoUserConfig,
   [filenames |-> << >>],
   [filenames |-> <<TeamMd>>],
   [filenames |-> <<TeamMd, ApiMd>>],
   [filenames |-> <<ApiMd, TeamMd>>],
   [filenames |-> <<ClaMd, TeamMd>>],
   [filenames |-> <<TeamMd, AgentsMd>>, excludeRoot |-> FALSE],
   [filenames |-> <<AgentsMd, ClaudeMd, TeamMd, ApiMd>>]}

\* The regular files of /p/s and of /p/s/a: any of AGENTS.md, CLA.md,
\* TEAM.md and API.md in each
NamedDirs == {SrcDir, ApiDir}
NameProfiles == SUBSET {AgentsMd, ClaMd, TeamMd, ApiMd}

NameFileSystems ==
  {FileSystem(UNION {{PathJoin(d, n) : n \in profile[d]} : d \in NamedDirs}, {})
   : profile \in [NamedDirs -> NameProfiles]}

InitNames ==
  \E user \in UserConfigs, files \in NameFileSystems :
    InitWith(<< >>, user, files)

NextNames == \E startDir \in NamedDirs : Walk(startDir)

SpecNames == InitNames /\ [][NextNames]_vars

\* ------------------------------------------------------------------ truncation alone

\* The values of maxContextSize
TruncSizes == {26, 30}

\* A content is up to MaxExtra characters longer than maxContextSize.
MaxExtra == 3

\* The string of n characters "a"
Filler(n) == [i \in 1..n |-> "a"]

\* The string s with piece written over its characters from 0-based index
\* pos on, s itself when piece does not fit
Place(s, pos, piece) ==
  IF pos + Len(piece) > Len(s) THEN s
  ELSE [i \in 1..Len(s) |->
          IF i > pos /\ i <= pos + Len(piece) THEN piece[i - pos] ELSE s[i]]

\* Where the boundaries of a content of maxSize characters or more start:
\* near the beginning, and anywhere from two thirds of maxSize on
BoundaryStarts(maxSize) == {0, 10} \cup (((2 * maxSize) \div 3)..(maxSize + MaxExtra))

\* The contents for one maxSize: the lengths around maxSize, with no
\* boundary, one boundary or two
TruncContents(maxSize) ==
  UNION {
    LET base == Filler(n)
        ones == {Place(base, pos, piece) :
                   pos \in BoundaryStarts(maxSize),
                   piece \in {ParagraphBreak, RuleBreak}}
    IN ones \cup {Place(c, pos, piece) :
                    c \in ones, pos \in BoundaryStarts(maxSize),
                    piece \in {ParagraphBreak, RuleBreak}}
    : n \in (maxSize - 1)..(maxSize + MaxExtra)}

\* The fragments whose content is truncated
TruncFragments == {PathJoin(RootDir, AgentsMd), PathJoin(ApiDir, AgentsMd)}

\* A fragment has been read: its path and its content are at hand.
InitTruncate ==
  \E maxSize \in TruncSizes :
    \E content \in TruncContents(maxSize), agentsPath \in TruncFragments :
      /\ sessionCaches = << >>
      /\ config = LoadConfig([maxContextSize |-> maxSize])
      /\ fs = ExampleFS
      /\ last = [NoRun EXCEPT !.op = "content", !.arg = content,
                              !.agentsFiles = <<agentsPath>>]
      /\ hist = [EmptyHist EXCEPT !.user = [maxContextSize |-> maxSize]]
      /\ runs = NoCalls

\* truncateContent(content, config.maxContextSize, agentsPath, resolvedRoot),
\* the call of lines 176 and 257
Truncate ==
  /\ last.op = "content"
  /\ last' = [last EXCEPT
                !.op = "truncate",
                !.text = truncateContent(last.arg, config.maxContextSize,
                                         last.agentsFiles[1],
                                         PathResolve(RootDir))]
  /\ UNCHANGED <<sessionCaches, config, fs, hist, runs>>

NextTruncate == Truncate

SpecTruncate == InitTruncate /\ [][NextTruncate]_vars

\* ------------------------------------------------------------------ properties

IdsOf(caches) == [i \in 1..Len(caches) |-> caches[i].id]

\* p is directory root or lies in the directory subtree of root
InsideSubtree(p, root) == p = root \/ StartsWith(p, root \o <<Sep>>)

\* The resolved path of the argument of the last read or inject_context run
ResolvedTarget == PathResolve(AbsolutePath(last.arg, RootDir))

\* C1 (as stated): since the last session-shutdown of s (or since the
\* start), the read hook has injected no fragment path into the read
\* results of session s more than once.
C1_OncePerSession == \A s \in Hot : hist.twice[s] = {}

\* C1 (amended): since the entry of s was last removed from the table, by a
\* session-shutdown of s or by a capacity eviction (or since the start), the
\* read hook has injected no fragment path into the read results of s more
\* than once.
C1_OncePerTracking == \A s \in Hot : hist.lifeTwice[s] = {}

\* A read of a tracked session resolved fragments, every one already
\* delivered to it, and injected nothing.
C1_Witness ==
  /\ last.op = "read" /\ last.accepted
  /\ last.agentsFiles # << >> /\ last.contexts = << >> /\ last.failed = << >>
  /\ Range(last.agentsFiles) \subseteq hist.lifeOnce[last.sid]

\* C2: the session table never holds more than MAX_CACHED_SESSIONS entries.
C2_Bounded == Len(sessionCaches) <= MAX_CACHED_SESSIONS

\* The table is full, session 1 has been evicted from it, and the last run
\* created the newest entry.
C2_Witness ==
  /\ Len(sessionCaches) = MAX_CACHED_SESSIONS
  /\ ~MapHas(sessionCaches, 1)
  /\ last.op \in {"read", "context"}
  /\ sessionCaches[Len(sessionCaches)].id = last.sid

\* C3: a run that calls getSessionCache(id) (a /context command or an
\* accepted read event) leaves the keys as they are when id is tracked,
\* appends id when id is untracked and the table is below capacity, and
\* removes the first key (the entry created earliest) and appends id when id
\* is untracked and the table is at capacity; the new entry holds nothing but
\* what the same run delivered, and every other remaining entry is unchanged.
C3_Step ==
  LET sid == last'.sid
      ids == IdsOf(sessionCaches)
      ids2 == IdsOf(sessionCaches')
      called == last'.op = "context" \/ (last'.op = "read" /\ last'.accepted)
      tracked == MapHas(sessionCaches, sid)
      kept == IF tracked \/ Len(ids) < MAX_CACHED_SESSIONS THEN 0 ELSE 1
  IN called =>
       /\ ids2 = (IF tracked THEN ids
                  ELSE IF Len(ids) < MAX_CACHED_SESSIONS THEN Append(ids, sid)
                  ELSE Append(Tail(ids), sid))
       /\ ~tracked => sessionCaches'[Len(ids2)].injectedPaths = Range(last'.contexts)
       /\ \A i \in 1..Len(ids2) :
            sessionCaches'[i].id # sid => sessionCaches'[i] = sessionCaches[i + kept]

C3_EvictsOldest == [][C3_Step]_vars

\* A /context command of an untracked session found the table full and
\* evicted session 1, the oldest entry, which had been read into; every
\* cold entry is still there.
C3_Witness ==
  /\ last.op = "context"
  /\ Len(sessionCaches) = MAX_CACHED_SESSIONS
  /\ sessionCaches[Len(sessionCaches)].id = last.sid
  /\ ~MapHas(sessionCaches, 1)
  /\ hist.once[1] # {}
  /\ FirstKey(sessionCaches) = WarmTable[2].id

\* C4: a read event or an inject_context call resolves fragments, and
\* returns any, only when the resolved target is the workspace root or lies
\* in the directory subtree of the workspace root; for every other target
\* nothing is resolved and nothing is injected.
C4_Containment ==
  (/\ last.op \in {"read", "inject"}
   /\ last.agentsFiles # << >> \/ last.contexts # << >>)
    => InsideSubtree(ResolvedTarget, RootDir)

\* C5: with excludeRoot=true a read event injects no fragment located
\* directly in the workspace root; with excludeRoot=false an accepted read
\* event whose target lies in the subtree of the root resolves the first
\* matching candidate of the root when the root holds one.
C5_ExcludeRoot ==
  last.op = "read" =>
    /\ config.excludeRoot =>
         \A i \in 1..Len(last.contexts) : PathDirname(last.contexts[i]) # RootDir
    /\ (/\ ~config.excludeRoot /\ last.accepted
        /\ StartsWith(ResolvedTarget, RootDir \o <<Sep>>)
        /\ FirstMatch(RootDir, config.filenames, 1, fs) # << >>)
         => FirstMatch(RootDir, config.filenames, 1, fs)[1] \in Range(last.agentsFiles)

\* A start directory in canonical form that is the root or lies in its subtree
CanonicalInside(d) == PathResolve(d) = d /\ InsideSubtree(d, RootDir)

\* The directories from the root down to d, for d canonical inside the root
ChainDirs(d) ==
  {SubSeq(d, 1, k) : k \in {j \in Len(RootDir)..Len(d) : j = Len(d) \/ d[j + 1] = Sep}}

\* Directory d holds a candidate name that is a regular file
HasMatch(d) ==
  \E k \in 1..Len(config.filenames) :
    StatSync(fs, d \o <<Sep>> \o config.filenames[k]) = "file"

\* C6: for a canonical start directory D that is the root or inside it, the
\* result of findAgentsFilesUp holds exactly one path for every directory
\* of the chain from D up to the root (the root left out under excludeRoot)
\* that holds a matching candidate, none for the other directories, nothing
\* else, and the paths come outermost directory first.
C6_Chain ==
  (last.op = "walk" /\ CanonicalInside(last.arg)) =>
    LET res == last.agentsFiles
        visited == {d \in ChainDirs(last.arg) : d # RootDir \/ ~config.excludeRoot}
    IN /\ \A i \in 1..Len(res) :
             /\ PathDirname(res[i]) \in visited
             /\ StatSync(fs, res[i]) = "file"
             /\ \E k \in 1..Len(config.filenames) :
                  res[i] = PathDirname(res[i]) \o <<Sep>> \o config.filenames[k]
       /\ \A d \in visited :
            Cardinality({i \in 1..Len(res) : PathDirname(res[i]) = d})
              = (IF HasMatch(d) THEN 1 ELSE 0)
       /\ \A i, j \in 1..Len(res) :
            i < j => Len(PathDirname(res[i])) < Len(PathDirname(res[j]))

\* A walk from /p/s/a with the root included found the fragments of /p and
\* /p/s/a, in that order, /p/s holding no match.
C6_Witness ==
  /\ last.op = "walk" /\ last.arg = ApiDir /\ ~config.excludeRoot
  /\ ~HasMatch(SrcDir)
  /\ Len(last.agentsFiles) = 2
  /\ PathDirname(last.agentsFiles[1]) = RootDir
  /\ PathDirname(last.agentsFiles[2]) = ApiDir

\* C7: every path findAgentsFilesUp records is, in its directory, the
\* candidate earliest in the configured order that is a regular file: it is
\* a regular file and no candidate before it is one (a candidate that is a
\* directory or cannot be stat-ed is passed over); a walk from a canonical
\* start directory records at most one path per directory.
C7_FirstRegular ==
  last.op = "walk" =>
    LET res == last.agentsFiles IN
    /\ \A i \in 1..Len(res) :
         \E k \in 1..Len(config.filenames) :
           /\ res[i] = PathJoin(PathDirname(res[i]), config.filenames[k])
           /\ StatSync(fs, res[i]) = "file"
           /\ \A j \in 1..(k - 1) :
                StatSync(fs, PathJoin(PathDirname(res[i]), config.filenames[j])) # "file"
    /\ PathResolve(last.arg) = last.arg =>
         \A i, j \in 1..Len(res) :
           PathDirname(res[i]) = PathDirname(res[j]) => i = j

\* A walk recorded CLAUDE.md in a directory where AGENTS.md is a directory.
C7_Witness ==
  /\ last.op = "walk"
  /\ \E i \in 1..Len(last.agentsFiles) :
       LET d == PathDirname(last.agentsFiles[i]) IN
       /\ last.agentsFiles[i] = PathJoin(d, ClaudeMd)
       /\ StatSync(fs, PathJoin(d, AgentsMd)) = "dir"

\* C8: an accepted read event of a tracked session s finds every path it
\* marks absent from the delivered set of s before the event and present
\* after it, changes the delivered set of s by nothing but the marked
\* paths, and leaves every other entry of the table as it was.
C8_Step ==
  (last'.op = "read" /\ last'.accepted /\ MapHas(sessionCaches, last'.sid)) =>
    LET sid == last'.sid
        marked == Range(last'.contexts)
    IN /\ marked \cap InjectedPaths(sessionCaches, sid) = {}
       /\ InjectedPaths(sessionCaches', sid)
            = InjectedPaths(sessionCaches, sid) \cup marked
       /\ Len(sessionCaches') = Len(sessionCaches)
       /\ \A i \in 1..Len(sessionCaches) :
            sessionCaches[i].id # sid => sessionCaches'[i] = sessionCaches[i]

C8_MarkIsLocal == [][C8_Step]_vars

\* A read marked a path for a session that already held another one, while
\* another tracked session holds a delivered set without the marked path.
C8_Witness ==
  /\ last.op = "read" /\ last.contexts # << >>
  /\ Range(last.contexts) # InjectedPaths(sessionCaches, last.sid)
  /\ \E s \in Hot \ {last.sid} :
       /\ InjectedPaths(sessionCaches, s) # {}
       /\ ~(Range(last.contexts) \subseteq InjectedPaths(sessionCaches, s))

\* C9: a session-shutdown of s leaves s untracked and every other entry in
\* place, unchanged, and changes nothing when s is untracked; and an
\* accepted read event of a session into which nothing was injected since
\* its last shutdown finds no resolved fragment delivered and injects every
\* resolved fragment whose read does not fail.
C9_Step ==
  LET sid == last'.sid IN
  /\ last'.op = "shutdown" =>
       IF MapHas(sessionCaches, sid)
         THEN LET k == MapGet(sessionCaches, sid) IN
              /\ Len(sessionCaches') = Len(sessionCaches) - 1
              /\ \A i \in 1..Len(sessionCaches') :
                   sessionCaches'[i] = sessionCaches[IF i < k THEN i ELSE i + 1]
         ELSE sessionCaches' = sessionCaches
  /\ (last'.op = "read" /\ last'.accepted /\ hist.once[sid] = {}) =>
       /\ Range(last'.agentsFiles) \cap InjectedPaths(sessionCaches, sid) = {}
       /\ Range(last'.contexts) = Range(last'.agentsFiles) \ Range(last'.failed)

C9_ShutdownForgets == [][C9_Step]_vars

\* A read injected again a fragment that the session held when it was shut
\* down, while another session still holds its own delivered set.
C9_Witness ==
  /\ last.op = "read"
  /\ last.reinjected # {}
  /\ \E s \in Hot \ {last.sid} : InjectedPaths(sessionCaches, s) # {}

\* C10: in every step, an entry that is in the table before and after the
\* step holds after it every path it held before.
C10_Step ==
  \A i \in {j \in 1..Len(sessionCaches) : sessionCaches[j].injectedPaths # {}} :
    MapHas(sessionCaches', sessionCaches[i].id) =>
      sessionCaches[i].injectedPaths
        \subseteq InjectedPaths(sessionCaches', sessionCaches[i].id)

C10_OnlyGrows == [][C10_Step]_vars

\* The table is full and a /context command of one session has just run
\* while another session holds delivered paths.
C10_Witness ==
  /\ last.op = "context"
  /\ Len(sessionCaches) = MAX_CACHED_SESSIONS
  /\ \E s \in Hot \ {last.sid} : InjectedPaths(sessionCaches, s) # {}

\* C11: whatever the event and whatever the stat and read calls do, the
\* read hook returns undefined, which leaves the original result as it is,
\* or a result whose content is the content blocks of the event in their
\* order followed by exactly one text block, and whose details and isError
\* are those of the event; it has no other outcome.
C11_Additive ==
  last.op = "read" =>
    LET ret == last.returned
        n == Len(last.event.content)
    IN \/ ret = Undefined
       \/ /\ ret.kind = "result"
          /\ Len(ret.content) = n + 1
          /\ SubSeq(ret.content, 1, n) = last.event.content
          /\ ret.content[n + 1].type = "text"
          /\ ret.details = last.event.details
          /\ ret.isError = last.event.isError

\* A read event carrying two content blocks and the error flag passed over
\* a candidate that is a directory, had one fragment read fail and returned
\* a result with the text of another.
C11_Witness ==
  /\ last.op = "read" /\ last.returned.kind = "result"
  /\ Len(last.event.content) = 2 /\ last.event.isError
  /\ last.failed # << >>
  /\ StatSync(fs, PathJoin(SrcDir, AgentsMd)) = "dir"
  /\ PathJoin(SrcDir, ClaudeMd) \in Range(last.agentsFiles)

\* s occurs in text
Contains(text, s) ==
  \E i \in 0..(Len(text) - Len(s)) : SubSeq(text, i + 1, i + Len(s)) = s

\* The text of the block a read event appended, empty when it appended none
InjectedText(run) ==
  IF run.returned.kind = "result"
    THEN run.returned.content[Len(run.returned.content)].text
    ELSE << >>

\* C12: in an accepted read event of session s, a fragment whose read
\* fails is absent from the injected block and from the delivered set of s
\* after the event; every other resolved fragment not yet delivered to s is
\* in the block and in the delivered set after the event; and a resolved
\* fragment whose read failed in an earlier event of s, and that s has not
\* been handed since, is read again (it is injected or its read fails
\* again).
C12_Step ==
  (last'.op = "read" /\ last'.accepted) =>
    LET sid == last'.sid
        before == InjectedPaths(sessionCaches, sid)
        after == InjectedPaths(sessionCaches', sid)
        resolved == Range(last'.agentsFiles)
        failed == Range(last'.failed)
        text == InjectedText(last')
        entry(f) == DirectoryContext(config, f, PathResolve(RootDir))
    IN /\ \A f \in failed : f \notin after /\ ~Contains(text, entry(f))
       /\ \A f \in resolved \ (failed \cup before) :
            f \in after /\ Contains(text, entry(f))
       /\ \A f \in resolved \cap hist.unread[sid] :
            f \in Range(last'.contexts) \cup failed

C12_FailedFragmentSkipped == [][C12_Step]_vars

\* A read event injected a fragment whose read had failed in an earlier
\* event of the session, while the read of another fragment failed.
C12_Witness ==
  /\ last.op = "read" /\ last.retried # {}
  /\ last.failed # << >>
  /\ Range(last.failed) \cap InjectedPaths(sessionCaches, last.sid) = {}

\* The event names another tool than read, carries no usable path, or its
\* path resolves to a place that is neither the workspace root nor in the
\* directory subtree of the workspace root.
MustReject(event) ==
  \/ event.toolName # "read"
  \/ ~event.input.isString
  \/ event.input.str = << >>
  \/ ~InsideSubtree(PathResolve(AbsolutePath(event.input.str, RootDir)), RootDir)

\* C13: a read-hook event that names another tool than read, whose path
\* argument is missing, empty or no string, or whose resolved path is
\* outside the workspace root, has no effect: the handler returns
\* undefined, injects nothing, and the session table is after the event
\* what it was before (no entry created, none evicted, no path marked).
C13_Step ==
  (last'.op = "read" /\ MustReject(last'.event)) =>
    /\ sessionCaches' = sessionCaches
    /\ last'.returned = Undefined
    /\ last'.contexts = << >>

C13_RejectedNoEffect == [][C13_Step]_vars

\* C14: an inject_context call leaves the session table as it is, and for
\* a directory D that is the root or inside it its result covers the whole
\* chain from the root down to D, the root included whatever excludeRoot
\* says and whatever the sessions have been delivered: one fragment for
\* every directory of the chain that holds a match, outermost first, the
\* text of every fragment whose read succeeds being in the returned
\* content; and a call repeated with the same argument and the same read
\* failures returns what the call before it returned.
C14_Step ==
  last'.op = "inject" =>
    LET D == AbsoluteDir(last'.arg, PathResolve(RootDir))
        res == last'.agentsFiles
        text == last'.returned.content[1].text
    IN /\ sessionCaches' = sessionCaches
       /\ InsideSubtree(D, RootDir) =>
            /\ last'.accepted
            /\ \A d \in ChainDirs(D) :
                 Cardinality({i \in 1..Len(res) : PathDirname(res[i]) = d})
                   = (IF HasMatch(d) THEN 1 ELSE 0)
            /\ \A i \in 1..Len(res) : PathDirname(res[i]) \in ChainDirs(D)
            /\ \A i, j \in 1..Len(res) :
                 i < j => Len(PathDirname(res[i])) < Len(PathDirname(res[j]))
            /\ Range(last'.contexts) \cup Range(last'.failed) = Range(res)
            /\ \A f \in Range(last'.contexts) : Contains(text, FileContent(f))
       /\ (last.op = "inject" /\ last.arg = last'.arg
                              /\ last.failed = last'.failed) =>
            last'.returned = last.returned

C14_ManualIgnoresTable == [][C14_Step]_vars

\* With excludeRoot=true, an inject_context call returned the fragment of
\* the root and a fragment that a session had already been delivered.
C14_Witness ==
  /\ last.op = "inject" /\ config.excludeRoot
  /\ PathJoin(RootDir, AgentsMd) \in Range(last.contexts)
  /\ \E s \in EventSessions :
       Range(last.contexts) \cap InjectedPaths(sessionCaches, s) # {}

\* The path of a fragment under the workspace root, written from the root
NameUnderRoot(agentsPath) == SubSeq(agentsPath, Len(RootDir) + 2, Len(agentsPath))

\* The note of a truncation of the fragment: it ends with the name of the
\* fragment under the root and a closing bracket
IsNoteFor(note, agentsPath) ==
  LET name == NameUnderRoot(agentsPath) \o <<"]">>
  IN /\ Len(note) > Len(name)
     /\ SubSeq(note, Len(note) - Len(name) + 1, Len(note)) = name
     /\ note[1] = "\n"

\* C15: truncateContent returns a content of at most maxSize characters
\* unchanged; for a longer content it returns a prefix of the content of at
\* most maxSize characters followed by the truncation note, which names the
\* path of the fragment, so that the result has at most maxSize characters
\* plus the length of the note.
C15_Truncate ==
  last.op = "truncate" =>
    LET content == last.arg
        maxSize == config.maxContextSize
        result == last.text
        noteLength == Len(TruncationNote(NameUnderRoot(last.agentsFiles[1])))
    IN IF Len(content) <= maxSize THEN result = content
       ELSE /\ Len(result) <= maxSize + noteLength
            /\ \E k \in 0..maxSize :
                 /\ k <= Len(result)
                 /\ SubSeq(result, 1, k) = SubSeq(content, 1, k)
                 /\ IsNoteFor(SubSeq(result, k + 1, Len(result)),
                              last.agentsFiles[1])
                 /\ Len(result) - k = noteLength

\* A content of exactly maxSize characters that holds a boundary came back
\* unchanged.
C15_Witness ==
  /\ last.op = "truncate"
  /\ Len(last.arg) = config.maxContextSize
  /\ last.text = last.arg
  /\ LastIndexOf(last.arg, ParagraphBreak) >= 0

\* The 0-based indices at which a paragraph break or a horizontal-rule
\* separator lies wholly inside the first maxSize characters of content
BoundariesInside(content, maxSize) ==
  {i \in 0..maxSize :
     \E piece \in {ParagraphBreak, RuleBreak} :
       /\ i + Len(piece) <= maxSize
       /\ i + Len(piece) <= Len(content)
       /\ SubSeq(content, i + 1, i + Len(piece)) = piece}

\* C16: for a content longer than maxSize, the kept prefix ends at the last
\* boundary inside the first maxSize characters when that boundary has an
\* index strictly greater than 80% of maxSize, and has exactly maxSize
\* characters otherwise (no boundary, or the last one at or before 80%); it
\* is in every case longer than 80% of maxSize.
C16_Boundary ==
  (last.op = "truncate" /\ Len(last.arg) > config.maxContextSize) =>
    LET content == last.arg
        maxSize == config.maxContextSize
        inside == BoundariesInside(content, maxSize)
        lastOne == IF inside = {} THEN -1
                   ELSE CHOOSE i \in inside : \A j \in inside : j <= i
        kept == Len(last.text)
                  - Len(TruncationNote(NameUnderRoot(last.agentsFiles[1])))
    IN /\ kept = (IF lastOne # -1 /\ 5 * lastOne > 4 * maxSize
                   THEN lastOne ELSE maxSize)
       /\ 5 * kept > 4 * maxSize
       /\ SubSeq(last.text, 1, kept) = SubSeq(content, 1, kept)

\* A content was cut at a horizontal-rule separator that lies beyond 80% of
\* maxSize, an earlier paragraph break being passed over.
C16_Witness ==
  /\ last.op = "truncate" /\ Len(last.arg) > config.maxContextSize
  /\ \E k \in 0..(config.maxContextSize - Len(RuleBreak)) :
       /\ 5 * k > 4 * config.maxContextSize
       /\ Len(last.text)
            = k + Len(TruncationNote(NameUnderRoot(last.agentsFiles[1])))
       /\ SubSeq(last.arg, k + 1, k + Len(RuleBreak)) = RuleBreak
       /\ \E j \in 0..(k - 1) : SubSeq(last.arg, j + 1, j + 2) = ParagraphBreak

\* The depth of a path: the number of its segments
Depth(d) == Len(SelectSeq(Segments(d), LAMBDA seg : seg # << >>))

\* The number of characters of a path
Chars(p) == Len(p) + Len(SelectSeq(p, LAMBDA t : t = DotDot))

\* The walk went through the directories of v, each the parent of the one
\* before, and stopped at the root, at a directory that does not begin with
\* the root, or at a directory that is its own parent.
WalkShape(v, arg, root) ==
  /\ Len(v) >= 1 /\ v[1] = arg
  /\ \A i \in 1..(Len(v) - 1) :
       /\ v[i + 1] = PathDirname(v[i])
       /\ StartsWith(v[i], root) /\ v[i] # root
  /\ \/ v[Len(v)] = root
     \/ ~StartsWith(v[Len(v)], root)
     \/ PathDirname(v[Len(v)]) = v[Len(v)]

\* C17 as stated: a walk from any start directory under any root ends:
\* each iteration stops or moves to the parent, a strictly shorter path,
\* the loop stops when the parent equals the current directory, and it goes
\* through at most (depth of the start directory + 1) directories.
C17_Terminates ==
  last.op = "walkFrom" =>
    LET v == last.visited
    IN /\ WalkShape(v, last.arg, last.root)
       /\ \A i \in 1..(Len(v) - 1) : Chars(v[i + 1]) < Chars(v[i])
       /\ Len(v) <= Depth(last.arg) + 1

\* C17 amended: a walk from any start directory under any root ends: each
\* iteration stops or moves to the parent, a different path that is never
\* longer and is strictly shorter unless the step is from a relative name
\* of one character to "."; the loop stops when the parent equals the
\* current directory; and it goes through at most (depth of the start
\* directory + 2) directories, at most (depth + 1) unless the start
\* directory begins with two separators.
C17_WalkEnds ==
  last.op = "walkFrom" =>
    LET v == last.visited
    IN /\ WalkShape(v, last.arg, last.root)
       /\ \A i \in 1..(Len(v) - 1) :
            /\ v[i + 1] # v[i]
            /\ Chars(v[i + 1]) <= Chars(v[i])
            /\ Chars(v[i + 1]) = Chars(v[i])
                 => (v[i + 1] = <<Dot>> /\ ~IsAbsolute(v[i]))
       /\ Len(v) <= Depth(last.arg) + 2
       /\ Len(v) > Depth(last.arg) + 1 => StartsWith(last.arg, <<Sep, Sep>>)

\* A walk from //a under the empty root never met the root: it went
\* through //a, // and /, one directory more than depth + 1, and stopped at
\* /, which is its own parent.
C17_Witness ==
  /\ last.op = "walkFrom" /\ last.root = << >>
  /\ last.arg = <<Sep, Sep, "a">>
  /\ last.visited = <<<<Sep, Sep, "a">>, <<Sep, Sep>>, TopDir>>
  /\ PathDirname(TopDir) = TopDir
  /\ Len(last.visited) = Depth(last.arg) + 2

\* C18: in an accepted read event of session s, a fragment is added to
\* the delivered set of s if and only if its context string is in the text
\* block the event returns; and after the event every resolved fragment is
\* in the delivered set of s or its read failed in this event.
C18_Step ==
  (last'.op = "read" /\ last'.accepted) =>
    LET sid == last'.sid
        before == InjectedPaths(sessionCaches, sid)
        after == InjectedPaths(sessionCaches', sid)
        text == InjectedText(last')
        entry(f) == DirectoryContext(config, f, PathResolve(RootDir))
    IN /\ \A f \in RegularFiles(fs) \cup after :
            (f \in after \ before) <=> Contains(text, entry(f))
       /\ before \subseteq after
       /\ \A f \in Range(last'.agentsFiles) :
            f \in after \/ f \in Range(last'.failed)

C18_MarkedIffInjected == [][C18_Step]_vars

\* A read event returned the text of two fragments, which are all the
\* session holds, while the read of a third fragment failed.
C18_Witness ==
  /\ last.op = "read" /\ last.returned.kind = "result"
  /\ Len(last.contexts) = 2
  /\ InjectedPaths(sessionCaches, last.sid) = Range(last.contexts)
  /\ Len(last.failed) = 1

\* The calls that stand in the middle of the handler body
InProgress == {c \in Calls : runs[c].pc \notin {"idle", "done"}}

\* C19: while a call of the handler stands in the middle of its body, no
\* other call executes a statement: between the test of the delivered set
\* and its update, and from the first statement to the return, every step
\* is a step of that call; and no fragment is injected twice into the read
\* results of one session by the calls.
C19_Step ==
  /\ \A c \in InProgress : \A o \in Calls \ {c} : runs'[o] = runs[o]
  /\ \A s \in StepSessions : hist'.lifeTwice[s] = {}

C19_RunToCompletion == [][C19_Step]_vars

\* Two calls for the same session resolved the same fragments; the first
\* injected them and the second injected none.
C19_Witness ==
  /\ \A c \in {1, 2} : runs[c].pc = "done"
  /\ runs[1].sid = runs[2].sid
  /\ runs[1].agentsFiles = runs[2].agentsFiles
  /\ runs[1].contexts = runs[1].agentsFiles /\ runs[1].contexts # << >>
  /\ runs[2].contexts = << >>

\* C20: whatever the start directory, every file findAgentsFilesUp returns
\* lies in the root directory or in a directory inside the subtree of the
\* root, never in a directory above the root or beside it.
C20_InsideOnly ==
  last.op = "walk" =>
    \A i \in 1..Len(last.agentsFiles) :
      InsideSubtree(PathDirname(FileOf(last.agentsFiles[i])), RootDir)

\* A step of an operation that delivers no fragment: a /context command, or
\* an accepted read event whose result got no text.
NoDelivery ==
  \/ last'.op = "context"
  \/ last'.op = "read" /\ last'.accepted /\ last'.contexts = << >>

\* C21 as stated: an operation that delivers no fragment (a /context command
\* or an accepted read event for which no undelivered fragment is found)
\* leaves the delivered set of every session unchanged and untracks no
\* session, in every reachable state including a full table.
C21_Step ==
  NoDelivery =>
    /\ Keys(sessionCaches) \subseteq Keys(sessionCaches')
    /\ \A s \in Keys(sessionCaches) :
         InjectedPaths(sessionCaches', s) = InjectedPaths(sessionCaches, s)

C21_NoDeliveryNoEffect == [][C21_Step]_vars

\* C21 amended: an operation that delivers no fragment leaves the delivered
\* set of every session that stays tracked unchanged and tracks no session
\* but its own, with an empty set; it untracks no session when its own
\* session is tracked or the table is below capacity, and untracks the
\* oldest session, and no other, when its own session is untracked and the
\* table is full.
C21_AmendedStep ==
  LET sid == last'.sid
      evicts == ~MapHas(sessionCaches, sid)
                  /\ Len(sessionCaches) >= MAX_CACHED_SESSIONS
  IN NoDelivery =>
       /\ Keys(sessionCaches) \ Keys(sessionCaches')
            = (IF evicts THEN {FirstKey(sessionCaches)} ELSE {})
       /\ Keys(sessionCaches') \ Keys(sessionCaches)
            = (IF MapHas(sessionCaches, sid) THEN {} ELSE {sid})
       /\ \A s \in Keys(sessionCaches') :
            InjectedPaths(sessionCaches', s) = InjectedPaths(sessionCaches, s)

C21_NoDeliveryEvictsAtMostOldest == [][C21_AmendedStep]_vars

\* A /context command of an untracked session found the table full: session
\* 1, the oldest, lost the fragments it had been handed, and session 2 kept
\* its own.
C21_Witness ==
  /\ last.op = "context"
  /\ Len(sessionCaches) = MAX_CACHED_SESSIONS
  /\ ~MapHas(sessionCaches, 1)
  /\ hist.once[1] # {}
  /\ InjectedPaths(sessionCaches, last.sid) = {}
  /\ InjectedPaths(sessionCaches, 2) # {}
  /\ InjectedPaths(sessionCaches, 2) = hist.lifeOnce[2]

\* The number of places of text at which s occurs
Occurrences(text, s) ==
  Cardinality({i \in 0..(Len(text) - Len(s)) :
                 SubSeq(text, i + 1, i + Len(s)) = s})

\* The heading of the entry of a fragment in the injected block (line 178)
EntryHeading(f) ==
  <<"[Directory Context: ">> \o PathRelative(PathResolve(RootDir), f)
    \o <<"]">>

\* The paths that occur more than once in a sequence
Repeated(seq) ==
  {seq[j] : j \in {k \in 1..Len(seq) : \E i \in 1..(k - 1) : seq[i] = seq[k]}}

\* C22: the text block injected by one read event holds each fragment at
\* most once: no fragment path is pushed twice, and the heading and the
\* whole entry of every fragment occur at most once in the block, also when
\* the walk from a non-canonical target resolved the same fragment twice.
C22_OncePerBlock ==
  (last.op = "read" /\ last.accepted) =>
    /\ Repeated(last.contexts) = {}
    /\ \A f \in Range(last.agentsFiles) :
         /\ Occurrences(InjectedText(last), EntryHeading(f)) <= 1
         /\ Occurrences(InjectedText(last),
                        DirectoryContext(config, f, PathResolve(RootDir))) <= 1
         /\ f \in Range(last.contexts)
              => Occurrences(InjectedText(last), EntryHeading(f)) = 1

\* A read event whose target is not canonical resolved a fragment twice and
\* injected it, with a fragment of another directory.
C22_Witness ==
  /\ last.op = "read" /\ last.accepted
  /\ PathResolve(AbsolutePath(last.arg, RootDir)) # AbsolutePath(last.arg, RootDir)
  /\ Repeated(last.agentsFiles) \cap Range(last.contexts) # {}
  /\ Len(last.contexts) >= 2
  /\ last.returned.kind = "result"

\* A file system in which every candidate name is absent or a regular file
OnlyRegularFiles(files) == \A f \in DOMAIN files : files[f] = "file"

\* C23: for a canonical start directory that is the root or lies in the
\* root subtree, for both values of excludeRoot, on a file system in which
\* every candidate is absent or a regular file, the stat-based
\* findAgentsFilesUp (lines 46-88) and the existence-based one (lines
\* 337-373) return the same sequence.
C23_SameSequence ==
  (last.op = "walk" /\ CanonicalInside(last.arg) /\ OnlyRegularFiles(fs)) =>
    last.agentsFiles = last.earlier

\* Both revisions walked from /p/s/a with the root excluded and returned
\* the fragments of /p/s and /p/s/a, /p holding a fragment too and /p/s
\* holding two candidates.
C23_Witness ==
  /\ last.op = "walk" /\ last.arg = ApiDir /\ config.excludeRoot
  /\ OnlyRegularFiles(fs)
  /\ HasMatch(RootDir)
  /\ StatSync(fs, PathJoin(SrcDir, ClaudeMd)) = "file"
  /\ last.earlier = <<PathJoin(SrcDir, AgentsMd), PathJoin(ApiDir, AgentsMd)>>
  /\ last.agentsFiles = last.earlier

\* The filenames of the user's configuration, none when it has none
UserFilenames ==
  IF "filenames" \in DOMAIN hist.user THEN hist.user.filenames ELSE << >>

\* The candidates of list names that are regular files in directory d, by
\* index
RegularAt(d, names) ==
  {k \in 1..Len(names) : StatSync(fs, PathJoin(d, names[k])) = "file"}

Least(S) == CHOOSE k \in S : \A j \in S : k <= j

\* C24: the candidate list is AGENTS.md, CLAUDE.md, CLA.md followed by the
\* user's filenames in their order; in every directory a walk searches, the
\* recorded fragment is the first default that is a regular file when there
\* is one, whatever user names are regular files there, the first user name
\* that is a regular file when no default is one, and nothing otherwise.
C24_DefaultsThenUser ==
  /\ config.filenames = AGENTS_FILENAMES \o UserFilenames
  /\ (last.op = "walk" /\ CanonicalInside(last.arg)) =>
       \A d \in {e \in ChainDirs(last.arg) : e # RootDir \/ ~config.excludeRoot} :
         LET defaults == RegularAt(d, AGENTS_FILENAMES)
             added == RegularAt(d, UserFilenames)
             recorded == {f \in Range(last.agentsFiles) : PathDirname(f) = d}
         IN recorded =
              (IF defaults # {}
                 THEN {PathJoin(d, AGENTS_FILENAMES[Least(defaults)])}
               ELSE IF added # {}
                 THEN {PathJoin(d, UserFilenames[Least(added)])}
               ELSE {})

\* The user listed API.md and TEAM.md; the walk from /p/s/a recorded API.md
\* for /p/s, which holds TEAM.md too and no default, and CLA.md for /p/s/a,
\* which holds API.md too.
C24_Witness ==
  /\ last.op = "walk" /\ last.arg = ApiDir
  /\ UserFilenames = <<ApiMd, TeamMd>>
  /\ config.filenames = <<AgentsMd, ClaudeMd, ClaMd, ApiMd, TeamMd>>
  /\ RegularAt(SrcDir, AGENTS_FILENAMES) = {}
  /\ RegularAt(SrcDir, UserFilenames) = {1, 2}
  /\ RegularAt(ApiDir, UserFilenames) = {1}
  /\ last.agentsFiles = <<PathJoin(SrcDir, ApiMd), PathJoin(ApiDir, ClaMd)>>

====
